---- MODULE Spec2Model ----
(***************************************************************************)
(* A model of the test framework of src/test.hpp (Runner and TestSuite),   *)
(* src/asserts.hpp (Assertion Library) and src/verify.hpp (Verification    *)
(* Library).                                                               *)
(*                                                                         *)
(* A C string is a sequence of one-character strings; a const char* into   *)
(* it is a position 1..Len+1 (Len+1 is the terminating NUL), Null is the   *)
(* null pointer and Wild a pointer that came out of undefined pointer      *)
(* arithmetic.  An exception is named by its dynamic type.                 *)
(***************************************************************************)
EXTENDS Integers, Sequences, FiniteSets, TLC

\* ------------------------------------------------------------------ bounds
\* Largest number of callables handed to one Runner invocation.
MaxTests == 3
\* Largest number of callables handed to the Runner over all its invocations
\* on the suite: the cap of the counter total.
MaxTotal == 3
\* Largest number of report() calls on the suite.
MaxReports == 2
\* Largest number of calls made directly on a ConstexprTestSuite.
MaxCalls == 4
\* Longest name list handed to test_all directly.
MaxStrLen == 4

\* ----------------------------------------------------------------- threads
MainThread == 1
\* The thread of control of constant evaluation.
ConstantEvaluator == 2
Threads == {1, 2}

\* ---------------------------------------------------------------- pointers
Null == 0
Wild == -1
NUL == "NUL"

CharAt(buf, p) == IF p >= 1 /\ p <= Len(buf) THEN buf[p] ELSE NUL

\* ------------------------------------------------- exceptions (by type)
NoExc == "none"

\* The direct base class of an exception type ("" when it has none).
BaseOf(k) ==
  CASE k = "TestFailure" -> "logic_error"
    [] k = "AssertFailure" -> "logic_error"
    [] k = "invalid_argument" -> "logic_error"
    [] k = "logic_error" -> "exception"
    [] k = "runtime_error" -> "exception"
    [] OTHER -> ""

RECURSIVE IsA(_, _)
\* A handler `catch (const K &)` matches a thrown object of type k.
IsA(k, K) ==
  IF k = NoExc \/ k = "" THEN FALSE
  ELSE IF k = K THEN TRUE
  ELSE IsA(BaseOf(k), K)

\* What a callable passed to assert_nothrow / assert_throw may throw;
\* "unknown" is a type outside the std::exception hierarchy.
FnExcs == {NoExc, "invalid_argument", "runtime_error", "TestFailure", "unknown"}

\* --------------------------------------------- test.hpp: embedded asserts
\* detail::fail of test.hpp throws TestFailure.
fail_test == "TestFailure"

assert_eq_test(lhs, rhs) == IF lhs # rhs THEN fail_test ELSE NoExc

assert_true_test(val) == IF ~val THEN fail_test ELSE NoExc

\* Both handlers (std::exception and ...) end in detail::fail.
assert_nothrow_test(fnexc) ==
  IF fnexc = NoExc THEN NoExc
  ELSE IF IsA(fnexc, "exception") THEN fail_test
  ELSE fail_test

\* ------------------------------------------------------------ asserts.hpp
\* detail::fail of asserts.hpp throws detail::AssertFailure.
fail_asserts == "AssertFailure"

assert_eq(lhs, rhs) == IF lhs # rhs THEN fail_asserts ELSE NoExc

assert_true(val) == IF ~val THEN fail_asserts ELSE NoExc

assert_false(val) == IF val THEN fail_asserts ELSE NoExc

assert_nothrow(fnexc) ==
  IF fnexc = NoExc THEN NoExc
  ELSE IF IsA(fnexc, "exception") THEN fail_asserts
  ELSE fail_asserts

\* An assert_throw that accepts only the exact type.
assert_throw_Exact(K, fnexc) ==
  IF K = "AnyException"
  THEN IF fnexc # NoExc THEN NoExc ELSE fail_asserts
  ELSE IF fnexc = K THEN NoExc
       ELSE fail_asserts

\* K = "AnyException" is the marker type that matches every exception.
assert_throw(K, fnexc) ==
  IF K = "AnyException"
  THEN IF fnexc # NoExc THEN NoExc ELSE fail_asserts
  ELSE IF IsA(fnexc, K) THEN NoExc
       ELSE fail_asserts

\* ------------------------------------------------------------- verify.hpp
\* Each verification yields [exc, val]: the exception thrown, and the value
\* returned when nothing is thrown.
VerifyRaise == "invalid_argument"

v(actual, expected) ==
  IF actual # expected THEN [exc |-> VerifyRaise, val |-> 0]
  ELSE [exc |-> NoExc, val |-> actual]

vn(actual, expected) ==
  IF actual = expected THEN [exc |-> VerifyRaise, val |-> 0]
  ELSE [exc |-> NoExc, val |-> actual]

\* actual && Verify{expected}
and_verify(actual, expected) ==
  IF actual # expected THEN [exc |-> VerifyRaise, val |-> 0]
  ELSE [exc |-> NoExc, val |-> actual]

\* actual ^ Verify{expected}
xor_verify(actual, expected) ==
  IF actual = expected THEN [exc |-> VerifyRaise, val |-> 0]
  ELSE [exc |-> NoExc, val |-> actual]

\* Verify{expected} && actual
verify_and(expected, actual) ==
  IF actual # expected THEN [exc |-> VerifyRaise, val |-> 0]
  ELSE [exc |-> NoExc, val |-> actual]

\* An operator^ that gives back the expected value.
verify_xor_ReturnsExpected(expected, actual) ==
  IF actual = expected THEN [exc |-> VerifyRaise, val |-> 0]
  ELSE [exc |-> NoExc, val |-> expected]

\* Verify{expected} ^ actual
verify_xor(expected, actual) ==
  IF actual = expected THEN [exc |-> VerifyRaise, val |-> 0]
  ELSE [exc |-> NoExc, val |-> actual]

\* ------------------------------------- calls with their complete outcome
\* The outcome of a call is [exc, what, returns, val]: the type and the
\* what() of the exception that leaves it, or whether it hands a value to
\* its caller (a void function does not) and that value.
Thrown(k, what) == [exc |-> k, what |-> what, returns |-> FALSE, val |-> 0]

ReturnsVoid == [exc |-> NoExc, what |-> <<>>, returns |-> FALSE, val |-> 0]

ReturnsValue(val) == [exc |-> NoExc, what |-> <<>>, returns |-> TRUE, val |-> val]

\* fmt::format("{}:{}:{} in {}(): {}\n", location..., str): a message is the
\* sequence of its pieces.
FormatAt(str) == <<"location">> \o str \o <<"\n">>

\* detail::fail(location, str) of test.hpp and of asserts.hpp.
fail_test_at(str) == Thrown(fail_test, FormatAt(str))

fail_asserts_at(str) == Thrown(fail_asserts, FormatAt(str))

\* assert_nothrow of test.hpp applied to a callable whose invocation has the
\* outcome fn; the value of std::invoke is discarded.
assert_nothrow_test_call(fn) ==
  IF fn.exc = NoExc THEN ReturnsVoid
  ELSE IF IsA(fn.exc, "exception")
       THEN fail_test_at(<<"ASSERT: Unexpected std::exception thrown", "what(): ">>
                         \o fn.what)
       ELSE fail_test_at(<<"ASSERT: Unknown exception thrown">>)

\* assert_nothrow of asserts.hpp.
assert_nothrow_call(fn) ==
  IF fn.exc = NoExc THEN ReturnsVoid
  ELSE IF IsA(fn.exc, "exception")
       THEN fail_asserts_at(<<"ASSERT: Unexpected std::exception thrown", "what(): ">>
                            \o fn.what)
       ELSE fail_asserts_at(<<"ASSERT: Unexpected unknown exception thrown">>)

\* Arguments and results of the callables handed to the helpers.
HelperVals == 0..2

\* Outcomes of the callables handed to assert_nothrow / assert_throw: a
\* value (nonthrowing of main.cpp), a std exception with some what(), a
\* failed nested assert_true of either header, or a foreign type.
Callables ==
  {ReturnsValue(r) : r \in HelperVals}
  \cup {Thrown(k, <<"x">>) : k \in {"invalid_argument", "runtime_error", "logic_error"}}
  \cup {fail_test_at(<<"ASSERT: Value is false">>),
        fail_asserts_at(<<"ASSERT: Value is false">>),
        Thrown("unknown", <<>>)}

\* The template argument of assert_throw<Exception>.
ExpectedKinds ==
  {"AnyException", "invalid_argument", "runtime_error", "logic_error",
   "exception", "TestFailure"}

\* ------------------------------------------------- test.hpp: C strings
isspace(c) == c \in {" ", "\t", "\n", "\r"}

RECURSIVE skip_whitespace(_, _)
\* A skip that stops at an ampersand.
skip_whitespace(buf, str) ==
  IF str = Null THEN Null
  ELSE IF CharAt(buf, str) # NUL /\ isspace(CharAt(buf, str))
       THEN skip_whitespace(buf, str + 1)
       ELSE str

RECURSIVE skip_whitespace_and_ampersand(_, _)
skip_whitespace_and_ampersand(buf, str) ==
  IF str = Null THEN Null
  ELSE IF (CharAt(buf, str) # NUL /\ isspace(CharAt(buf, str)))
          \/ CharAt(buf, str) = "&"
       THEN skip_whitespace_and_ampersand(buf, str + 1)
       ELSE str

RECURSIVE strchr(_, _, _)
strchr(buf, str, c) ==
  IF str = Null THEN Null
  ELSE IF CharAt(buf, str) # NUL /\ CharAt(buf, str) # c
       THEN strchr(buf, str + 1, c)
       ELSE IF CharAt(buf, str) = c THEN str ELSE Null

RECURSIVE strlen(_, _)
\* The length from str to the NUL; the caller has passed verify(str != nullptr).
strlen(buf, str) ==
  IF CharAt(buf, str) = NUL THEN 0 ELSE 1 + strlen(buf, str + 1)

\* detail::verify: the exception it throws.
verify(condition) == IF ~condition THEN "invalid_argument" ELSE NoExc

\* std::string_view{data, len} over buf.
string_view(buf, data, len) == SubSeq(buf, data, data + len - 1)

\* What a string_view built by undefined pointer arithmetic may show.
GarbageNames == {<<>>, <<"?">>}

\* ------------------------------------------------------ the caller's input
Letter(i) == <<"a", "b", "c", "d", "e", "f">>[i]

RECURSIVE NameList(_, _, _)
\* The text #__VA_ARGS__ gives for k callables: names separated by a comma
\* (and a space when sp), each preceded by & when amp (a member pointer).
NameList(k, amp, sp) ==
  IF k = 0 THEN <<>>
  ELSE (IF k = 1 THEN <<>>
        ELSE NameList(k - 1, amp, sp) \o <<",">> \o (IF sp THEN <<" ">> ELSE <<>>))
       \o (IF amp THEN <<"&">> ELSE <<>>) \o <<Letter(k)>>

\* Number of comma-separated entries of a name list (0 for the null pointer).
NameCount(buf, str) ==
  IF str = Null THEN 0
  ELSE Cardinality({i \in 1..Len(buf) : buf[i] = ","}) + 1

Vals == {1, 2}

\* Bodies of plain test callables: one helper call, or a bare throw
\* (kind "throw"; with fn = NoExc the body does nothing).
Bodies ==
  [kind : {"assert_eq_test", "assert_true_test", "assert_eq", "assert_true",
           "assert_false", "v", "vn", "and_verify", "xor_verify"},
   x : Vals, y : Vals, fn : {NoExc}, K : {""}]
  \cup [kind : {"assert_nothrow_test", "assert_nothrow", "throw"},
        x : {1}, y : {1}, fn : FnExcs, K : {""}]
  \cup [kind : {"assert_throw"}, x : {1}, y : {1}, fn : FnExcs,
        K : {"AnyException", "invalid_argument", "runtime_error", "exception"}]

\* The exception that leaves the body (NoExc when it returns).
BodyRaise(b) ==
  CASE b.kind = "assert_eq_test" -> assert_eq_test(b.x, b.y)
    [] b.kind = "assert_true_test" -> assert_true_test(b.x = b.y)
    [] b.kind = "assert_nothrow_test" -> assert_nothrow_test(b.fn)
    [] b.kind = "assert_eq" -> assert_eq(b.x, b.y)
    [] b.kind = "assert_true" -> assert_true(b.x = b.y)
    [] b.kind = "assert_false" -> assert_false(b.x = b.y)
    [] b.kind = "assert_nothrow" -> assert_nothrow(b.fn)
    [] b.kind = "assert_throw" -> assert_throw(b.K, b.fn)
    [] b.kind = "v" -> v(b.x, b.y).exc
    [] b.kind = "vn" -> vn(b.x, b.y).exc
    [] b.kind = "and_verify" -> and_verify(b.x, b.y).exc
    [] b.kind = "xor_verify" -> xor_verify(b.x, b.y).exc
    [] OTHER -> b.fn

\* The library whose helper the body calls.
LibraryOf(kind) ==
  IF kind \in {"assert_eq_test", "assert_true_test", "assert_nothrow_test",
               "assert_eq", "assert_true", "assert_false", "assert_nothrow",
               "assert_throw"} THEN "assertion"
  ELSE IF kind \in {"v", "vn", "and_verify", "xor_verify"} THEN "verification"
  ELSE "none"

\* Bodies of fixture methods: check assert_eq(1 + num, expect) with the
\* assert_eq of test.hpp or of asserts.hpp, or no check ("none"), or throw a
\* std::runtime_error ("throw"); then num += mut.
\* Fixture::add is a body with expect = 2 and mut = 0.
FixtureBodies ==
  [kind : {"assert_eq_test", "assert_eq", "none", "throw"}, mut : {0, 1},
   expect : {2, 3}]

FixtureBodyRaise(b, num) ==
  CASE b.kind = "assert_eq_test" -> assert_eq_test(1 + num, b.expect)
    [] b.kind = "assert_eq" -> assert_eq(1 + num, b.expect)
    [] b.kind = "throw" -> "runtime_error"
    [] OTHER -> NoExc

\* ------------------------------------------------------- main.cpp: Fixture
\* A Fixture without the default member initializer: num keeps what the
\* storage held.
NewFixture_Uninitialized(slot) == [alive |-> TRUE, num |-> slot.num]

\* `Class fixture;` for Fixture: the default member initializer sets num;
\* slot is what the storage held before.
NewFixture(slot) == [alive |-> TRUE, num |-> 1]

\* ------------------------------------------------------ test.hpp: TestSuite
\* An increment_total that forgets to count.
increment_total_Forgotten(loaded) == loaded

\* total += 1 and failed += 1, on the value loaded from the field.
increment_total(loaded) == loaded + 1

\* An increment_failed that does not count.
increment_failed_Forgotten(loaded) == loaded

increment_failed(loaded) == loaded + 1

\* A vector that inserts at the front.
push_back_Front(vec, size, sv) == <<sv>> \o vec

\* push_back writing at the end it loaded: vec[size] = sv; size = size + 1.
\* (An element between a shrunken end and a stale loaded end, which only a
\* racing push_back produces, is stale storage.)
push_back(vec, size, sv) ==
  [i \in 1..(size + 1) |->
     IF i = size + 1 THEN sv ELSE IF i <= Len(vec) THEN vec[i] ELSE <<"?">>]

status(s) == s.failed

\* ------------------------------------------- test.hpp: ConstexprTestSuite
\* A default-constructed ConstexprTestSuite, as the sequence of its data
\* members: the struct has none.
ConstexprTestSuite == <<>>

ConstexprTestSuite_add_failed_test(members, sv) == members

ConstexprTestSuite_status(members) == 0

ConstexprTestSuite_increment_total(members) == members

\* An increment_failed that keeps count.
ConstexprTestSuite_increment_failed_Counting(members) == Append(members, "failed")

ConstexprTestSuite_increment_failed(members) == members

\* report(): the summary made from the current counters and failed names.
\* TestSuite has no report(); concepts.hpp requires one of every suite.
report(s) == [names |-> s.failed_testnames, total |-> s.total, failed |-> s.failed]

\* catch (const std::exception &)
Catches_StdException(k) == IsA(k, "exception")

\* catch (const TestFailure &)
Catches(k) == IsA(k, "TestFailure")

\* ------------------------------------------------ test.hpp: name resolution
\* Outcomes of undefined behaviour while resolving a name: the process dies,
\* or the run goes on with a string_view over arbitrary memory.
UBOutcomes(str) ==
  {[crash |-> TRUE, ub |-> TRUE, exc |-> NoExc, fn_names |-> str,
    pcomma |-> Null, fn_name |-> <<>>]}
  \cup {[crash |-> FALSE, ub |-> TRUE, exc |-> NoExc, fn_names |-> str,
         pcomma |-> Null, fn_name |-> g] : g \in GarbageNames}

\* The head of test_all / test_all_with_fixture, up to the call of
\* test_single: rest is sizeof...(rest) + 1, the callables still to run.
ResolveName(buf, str, rest) ==
  IF str = Wild THEN UBOutcomes(Wild)
  ELSE LET s == skip_whitespace_and_ampersand(buf, str) IN
    IF rest > 1
    THEN LET pc0 == strchr(buf, s, ",") IN
         IF pc0 = Null /\ s # Null
         THEN UBOutcomes(s)   \* nullptr - fn_names
         ELSE {[crash |-> FALSE, ub |-> FALSE, exc |-> NoExc, fn_names |-> s,
                pcomma |-> pc0,
                fn_name |-> IF s = Null THEN <<>>
                            ELSE string_view(buf, s, pc0 - s)]}
    ELSE IF verify(s # Null) # NoExc
         THEN {[crash |-> FALSE, ub |-> FALSE, exc |-> verify(s # Null),
                fn_names |-> s, pcomma |-> Null, fn_name |-> <<>>]}
         ELSE {[crash |-> FALSE, ub |-> FALSE, exc |-> NoExc, fn_names |-> s,
                pcomma |-> Null,
                fn_name |-> string_view(buf, s, strlen(buf, s))]}

\* pcomma + 1, the name list handed to the recursive call.
NextNames(pcomma) == IF pcomma = Null THEN Wild ELSE pcomma + 1

\* ------------------------------------------------------------------- state
VARIABLES
  suite,     \* the TestSuite: total, failed, failed_testnames
  pc,        \* pc[t]: where thread t's Runner invocation stands
  fr,        \* fr[t]: the locals of thread t's Runner invocation
  fixture,   \* fixture[t]: the storage of `Class fixture` and whether it is alive
  gh,        \* gh[t]: history of thread t's invocation (not program state)
  started,   \* callables handed to the Runner so far (not program state)
  crashed,   \* the process died of undefined behaviour
  hc,        \* the last call of an assertion / verification helper, with its outcome
  rep,       \* the last report() of the suite (not program state)
  csuite     \* a ConstexprTestSuite: its data members, and the calls made on it

vars == <<suite, pc, fr, fixture, gh, started, crashed, hc, rep, csuite>>

NoFrame ==
  [buf |-> <<>>, fn_names |-> Null, pcomma |-> Null, rest |-> 0,
   with_fixture |-> FALSE, fn_name |-> <<>>, passed |-> FALSE,
   loaded |-> 0, ret |-> 0, exc |-> NoExc, ct |-> FALSE]

\* No helper has been called: the call record [helper, lib, x, y, fn, K, str,
\* n, out, names] holds the helper's name and header, its arguments (values
\* x and y, the callable's outcome fn, the expected type K; for test_all the
\* name list str and the number n of callables) and its outcome out (for
\* test_all the display names).
NoCall ==
  [helper |-> "none", lib |-> "none", x |-> 0, y |-> 0, fn |-> ReturnsVoid,
   K |-> "", str |-> <<>>, n |-> 0, out |-> ReturnsVoid, names |-> <<>>]

\* No report() yet: count reports so far, at the suite the last one saw,
\* text what it printed.
NoReport ==
  [count |-> 0, at |-> [total |-> 0, failed |-> 0, failed_testnames |-> <<>>],
   text |-> [names |-> <<>>, total |-> 0, failed |-> 0]]

NoHistory ==
  [n |-> 0, names |-> 0, hist |-> <<>>, log |-> <<>>,
   detected |-> "none", base |-> [total |-> 0, failed |-> 0, failed_testnames |-> <<>>],
   failedRun |-> <<>>, dirty |-> FALSE, ub |-> FALSE]

Init ==
  /\ suite = [total |-> 0, failed |-> 0, failed_testnames |-> <<>>]
  /\ pc = [t \in Threads |-> "idle"]
  /\ fr = [t \in Threads |-> NoFrame]
  /\ fixture = [t \in Threads |-> [alive |-> FALSE, num |-> 0]]
  /\ gh = [t \in Threads |-> NoHistory]
  /\ started = 0
  /\ crashed = FALSE
  /\ hc = NoCall
  /\ rep = NoReport
  /\ csuite = [members |-> ConstexprTestSuite, calls |-> <<>>]

Logged(t, event) == Append(gh[t].log, <<event, fr[t].fn_name>>)

\* ----------------------------------------------------------------- actions
\* The caller invokes test_all (fix = FALSE) or test_all_with_fixture on the
\* suite with n callables and a name list of k entries (k = 0: the null
\* pointer).  macro: the call is TEST_ALL / TEST_ALL_WITH_FIXTURE, whose
\* name list is the text of the n arguments.
StartBatch(t, macro) ==
  /\ ~crashed
  /\ pc[t] \in {"idle", "returned", "propagated"}
  /\ \E n \in 1..MaxTests, fix \in BOOLEAN, amp \in BOOLEAN, sp \in BOOLEAN :
     \E k \in (n - 1)..(n + 1) :
       /\ started + n <= MaxTotal
       /\ macro => (k = n /\ amp = fix /\ sp)
       /\ k = 0 => (~amp /\ ~sp)
       /\ started' = started + n
       /\ fr' = [fr EXCEPT ![t] =
                   [NoFrame EXCEPT !.buf = NameList(k, amp, sp),
                                   !.fn_names = IF k = 0 THEN Null ELSE 1,
                                   !.rest = n, !.with_fixture = fix]]
       /\ gh' = [gh EXCEPT ![t] =
                   [NoHistory EXCEPT !.n = n,
                                     !.names = NameCount(NameList(k, amp, sp),
                                                         IF k = 0 THEN Null ELSE 1),
                                     !.base = suite]]
  /\ pc' = [pc EXCEPT ![t] = "test_all"]
  /\ UNCHANGED <<csuite, hc, rep, suite, fixture, crashed>>

\* test_all / test_all_with_fixture: resolve the first name of the list.
TestAll(t) ==
  /\ ~crashed
  /\ pc[t] = "test_all"
  /\ \E o \in ResolveName(fr[t].buf, fr[t].fn_names, fr[t].rest) :
       /\ crashed' = o.crash
       /\ fr' = [fr EXCEPT ![t].fn_names = o.fn_names, ![t].pcomma = o.pcomma,
                           ![t].fn_name = o.fn_name, ![t].exc = o.exc,
                           ![t].passed = FALSE]
       /\ gh' = [gh EXCEPT ![t].ub = @ \/ o.ub, ![t].detected = "none"]
       /\ pc' = [pc EXCEPT ![t] = IF o.crash THEN "crashed"
                                  ELSE IF o.exc # NoExc THEN "propagated"
                                  ELSE "print_running"]
  /\ UNCHANGED <<csuite, hc, rep, suite, fixture, started>>

\* A runner that counts a test when it starts it.
PrintRunning_Counting(t) ==
  /\ ~crashed
  /\ pc[t] = "print_running"
  /\ gh' = [gh EXCEPT ![t].log = IF fr[t].ct THEN @ ELSE Logged(t, "Running")]
  /\ suite' = [suite EXCEPT !.total = increment_total(suite.total)]
  /\ pc' = [pc EXCEPT ![t] = IF fr[t].with_fixture THEN "construct" ELSE "invoke"]
  /\ UNCHANGED <<csuite, hc, rep, fr, fixture, started, crashed>>

\* detail::print("Running {}...\n", fn_name)
PrintRunning(t) ==
  /\ ~crashed
  /\ pc[t] = "print_running"
  /\ gh' = [gh EXCEPT ![t].log = IF fr[t].ct THEN @ ELSE Logged(t, "Running")]
  /\ pc' = [pc EXCEPT ![t] = IF fr[t].with_fixture THEN "construct" ELSE "invoke"]
  /\ UNCHANGED <<csuite, hc, rep, suite, fr, fixture, started, crashed>>

\* Class fixture;
Construct(t) ==
  /\ ~crashed
  /\ pc[t] = "construct"
  /\ fixture' = [fixture EXCEPT ![t] = NewFixture(fixture[t])]
  /\ gh' = [gh EXCEPT ![t].log = Logged(t, "construct")]
  /\ pc' = [pc EXCEPT ![t] = "invoke_method"]
  /\ UNCHANGED <<csuite, hc, rep, suite, fr, started, crashed>>

\* The try block of test_single / test_single_with_fixture after the body
\* ended with exception e (NoExc: it returned): the frame and the history.
AfterBody(t, e, lib) ==
  /\ fr' = [fr EXCEPT ![t].passed = (e = NoExc),
                      ![t].exc = IF Catches(e) THEN NoExc ELSE e]
  /\ gh' = [gh EXCEPT ![t].hist = Append(@, e),
                      ![t].log = Logged(t, "invoke"),
                      ![t].detected = IF e # NoExc THEN lib ELSE "none",
                      ![t].failedRun = IF IsA(e, "TestFailure")
                                       THEN Append(@, fr[t].fn_name) ELSE @,
                      ![t].dirty = @ \/ fixture'[t].num # fixture[t].num]

\* std::invoke(fn) in test_single.
Invoke(t) ==
  /\ ~crashed
  /\ pc[t] = "invoke"
  /\ \E b \in Bodies :
       LET e == BodyRaise(b) IN
       /\ fixture' = fixture
       /\ AfterBody(t, e, LibraryOf(b.kind))
       /\ pc' = [pc EXCEPT ![t] = IF e # NoExc /\ fr[t].ct THEN "not_constant"
                                  ELSE IF e # NoExc /\ ~Catches(e) THEN "propagated"
                                  ELSE "print_result"]
  /\ UNCHANGED <<csuite, hc, rep, suite, started, crashed>>

\* std::invoke(fn, &fixture) in test_single_with_fixture.
InvokeMethod(t) ==
  /\ ~crashed
  /\ pc[t] = "invoke_method"
  /\ \E b \in FixtureBodies :
       LET e == FixtureBodyRaise(b, fixture[t].num) IN
       /\ fixture' = [fixture EXCEPT ![t].num = IF e = NoExc THEN @ + b.mut ELSE @]
       /\ AfterBody(t, e, LibraryOf(b.kind))
       /\ pc' = [pc EXCEPT ![t] = IF e # NoExc /\ fr[t].ct THEN "not_constant"
                                  ELSE "scope_exit"]
  /\ UNCHANGED <<csuite, hc, rep, suite, started, crashed>>

\* A fixture that outlives its block (allocated and never deleted).
ScopeExit_Leak(t) ==
  /\ ~crashed
  /\ pc[t] = "scope_exit"
  /\ pc' = [pc EXCEPT ![t] = IF fr[t].exc # NoExc THEN "propagated"
                             ELSE "print_result"]
  /\ UNCHANGED <<csuite, hc, rep, suite, fr, fixture, gh, started, crashed>>

\* The closing brace of the fixture's block: the fixture is destroyed, on
\* the normal path, after the handler, and while an exception unwinds.
ScopeExit(t) ==
  /\ ~crashed
  /\ pc[t] = "scope_exit"
  /\ fixture' = [fixture EXCEPT ![t].alive = FALSE]
  /\ gh' = [gh EXCEPT ![t].log = Logged(t, "destroy")]
  /\ pc' = [pc EXCEPT ![t] = IF fr[t].exc # NoExc THEN "propagated"
                             ELSE "print_result"]
  /\ UNCHANGED <<csuite, hc, rep, suite, fr, started, crashed>>

\* A runner that emits no result notification.
PrintResult_Silent(t) ==
  /\ ~crashed
  /\ pc[t] = "print_result"
  /\ pc' = [pc EXCEPT ![t] = "load_total"]
  /\ UNCHANGED <<csuite, hc, rep, suite, fr, fixture, gh, started, crashed>>

\* detail::print("{}: {}\n", passed ? PASSED : FAILED, fn_name)
PrintResult(t) ==
  /\ ~crashed
  /\ pc[t] = "print_result"
  /\ gh' = [gh EXCEPT ![t].log = IF fr[t].ct THEN @
                                 ELSE Logged(t, IF fr[t].passed THEN "PASSED"
                                                ELSE "FAILED")]
  /\ pc' = [pc EXCEPT ![t] = "load_total"]
  /\ UNCHANGED <<csuite, hc, rep, suite, fr, fixture, started, crashed>>

\* test_suite.increment_total(): the read of total
LoadTotal(t) ==
  /\ ~crashed
  /\ pc[t] = "load_total"
  /\ fr' = [fr EXCEPT ![t].loaded = IF fr[t].ct THEN @ ELSE suite.total]
  /\ pc' = [pc EXCEPT ![t] = "store_total"]
  /\ UNCHANGED <<csuite, hc, rep, suite, fixture, gh, started, crashed>>

\* test_suite.increment_total(): the write of total
StoreTotal(t) ==
  /\ ~crashed
  /\ pc[t] = "store_total"
  /\ suite' = IF fr[t].ct THEN suite
              ELSE [suite EXCEPT !.total = increment_total(fr[t].loaded)]
  /\ gh' = [gh EXCEPT ![t].log = Logged(t, "increment_total")]
  /\ pc' = [pc EXCEPT ![t] = IF ~fr[t].passed THEN "load_failed" ELSE "return"]
  /\ UNCHANGED <<csuite, hc, rep, fr, fixture, started, crashed>>

\* test_suite.increment_failed(): the read of failed
LoadFailed(t) ==
  /\ ~crashed
  /\ pc[t] = "load_failed"
  /\ fr' = [fr EXCEPT ![t].loaded = IF fr[t].ct THEN @ ELSE suite.failed]
  /\ pc' = [pc EXCEPT ![t] = "store_failed"]
  /\ UNCHANGED <<csuite, hc, rep, suite, fixture, gh, started, crashed>>

\* test_suite.increment_failed(): the write of failed
StoreFailed(t) ==
  /\ ~crashed
  /\ pc[t] = "store_failed"
  /\ suite' = IF fr[t].ct THEN suite
              ELSE [suite EXCEPT !.failed = increment_failed(fr[t].loaded)]
  /\ gh' = [gh EXCEPT ![t].log = Logged(t, "increment_failed")]
  /\ pc' = [pc EXCEPT ![t] = "load_size"]
  /\ UNCHANGED <<csuite, hc, rep, fr, fixture, started, crashed>>

\* test_suite.add_failed_test(fn_name): push_back reads the vector's end
LoadSize(t) ==
  /\ ~crashed
  /\ pc[t] = "load_size"
  /\ fr' = [fr EXCEPT ![t].loaded = IF fr[t].ct THEN @
                                   ELSE Len(suite.failed_testnames)]
  /\ pc' = [pc EXCEPT ![t] = "store_name"]
  /\ UNCHANGED <<csuite, hc, rep, suite, fixture, gh, started, crashed>>

\* test_suite.add_failed_test(fn_name): push_back writes the element and the end
StoreName(t) ==
  /\ ~crashed
  /\ pc[t] = "store_name"
  /\ suite' = IF fr[t].ct THEN suite
              ELSE [suite EXCEPT !.failed_testnames =
                      push_back(@, fr[t].loaded, fr[t].fn_name)]
  /\ gh' = [gh EXCEPT ![t].log = Logged(t, "add_failed_test")]
  /\ pc' = [pc EXCEPT ![t] = "return"]
  /\ UNCHANGED <<csuite, hc, rep, fr, fixture, started, crashed>>

\* return passed; then, in test_all, the recursive call on pcomma + 1 or the
\* return of the sum static_cast<int>(single_passed) + rest_passed.
Return(t) ==
  /\ ~crashed
  /\ pc[t] = "return"
  /\ fr' = [fr EXCEPT ![t].ret = @ + (IF fr[t].passed THEN 1 ELSE 0),
                      ![t].rest = @ - 1,
                      ![t].fn_names = IF fr[t].rest > 1 THEN NextNames(fr[t].pcomma) ELSE @]
  /\ pc' = [pc EXCEPT ![t] = IF fr[t].rest > 1 THEN "test_all"
                             ELSE IF fr[t].ct THEN "constexpr_passed"
                             ELSE "returned"]
  /\ UNCHANGED <<csuite, hc, rep, suite, fixture, gh, started, crashed>>

\* A report() that starts the suite afresh.
Report_Resetting(t) ==
  /\ ~crashed
  /\ pc[t] \in {"idle", "returned", "propagated"}
  /\ rep.count < MaxReports
  /\ rep' = [count |-> rep.count + 1, at |-> suite, text |-> report(suite)]
  /\ suite' = [total |-> 0, failed |-> 0, failed_testnames |-> <<>>]
  /\ UNCHANGED <<csuite, pc, fr, fixture, gh, started, crashed, hc>>

\* suite.report(), called by the caller of the Runner between its runs.
Report(t) ==
  /\ ~crashed
  /\ pc[t] \in {"idle", "returned", "propagated"}
  /\ rep.count < MaxReports
  /\ rep' = [count |-> rep.count + 1, at |-> suite, text |-> report(suite)]
  /\ UNCHANGED <<csuite, suite, pc, fr, fixture, gh, started, crashed, hc>>

\* TEST_ALL_CONSTEXPR(...) / TEST_ALL_WITH_FIXTURE_CONSTEXPR(klass, ...) with
\* n callables: the constant evaluator runs test_all / test_all_with_fixture
\* on a ConstexprTestSuite, before the program runs.
StartConstexpr(t) ==
  /\ ~crashed
  /\ pc[t] \in {"idle", "returned", "not_constant"}
  /\ pc[MainThread] = "idle"
  /\ \E n \in 1..MaxTests, fix \in BOOLEAN :
       /\ fr' = [fr EXCEPT ![t] =
                   [NoFrame EXCEPT !.buf = NameList(n, fix, TRUE), !.fn_names = 1,
                                   !.rest = n, !.with_fixture = fix, !.ct = TRUE]]
       /\ gh' = [gh EXCEPT ![t] =
                   [NoHistory EXCEPT !.n = n,
                                     !.names = NameCount(NameList(n, fix, TRUE), 1),
                                     !.base = suite]]
  /\ pc' = [pc EXCEPT ![t] = "test_all"]
  /\ UNCHANGED <<csuite, hc, rep, suite, fixture, started, crashed>>

\* A macro that hands on the int of the Runner.
ConstexprPassed_Int(t) ==
  /\ ~crashed
  /\ pc[t] = "constexpr_passed"
  /\ pc' = [pc EXCEPT ![t] = "returned"]
  /\ UNCHANGED <<csuite, hc, rep, suite, fr, fixture, gh, started, crashed>>

\* constexpr bool passed = testing::test_all(...); return passed;
\* the int of the Runner is converted to bool (1 for true, 0 for false).
ConstexprPassed(t) ==
  /\ ~crashed
  /\ pc[t] = "constexpr_passed"
  /\ fr' = [fr EXCEPT ![t].ret = IF @ # 0 THEN 1 ELSE 0]
  /\ pc' = [pc EXCEPT ![t] = "returned"]
  /\ UNCHANGED <<csuite, hc, rep, suite, fixture, gh, started, crashed>>

\* The steps of a Runner invocation that has started.
Run(t) ==
  \/ TestAll(t)
  \/ PrintRunning(t)
  \/ Construct(t)
  \/ Invoke(t)
  \/ InvokeMethod(t)
  \/ ScopeExit(t)
  \/ PrintResult(t)
  \/ LoadTotal(t)
  \/ StoreTotal(t)
  \/ LoadFailed(t)
  \/ StoreFailed(t)
  \/ LoadSize(t)
  \/ StoreName(t)
  \/ Return(t)

Step(t, macro) ==
  \/ StartBatch(t, macro)
  \/ Run(t)

\* One thread drives the Runner, as main does.
Next == Step(MainThread, FALSE)

Spec == Init /\ [][Next]_vars

\* Independent Runner invocations on several threads share the suite.
NextConc == \E t \in Threads : Step(t, TRUE)

SpecConc == Init /\ [][NextConc]_vars

\* The translation unit is compiled, which evaluates its compile-time
\* macros, and then the program runs the same macros' runtime forms.
\* The program starts once the compile-time macro has its value.
NextPair ==
  \/ StartConstexpr(ConstantEvaluator)
  \/ ConstexprPassed(ConstantEvaluator)
  \/ pc[ConstantEvaluator] = "returned" /\ StartBatch(MainThread, TRUE)
  \/ \E t \in Threads : Run(t)

SpecPair == Init /\ [][NextPair]_vars

\* The caller runs the Runner through the macros and reports.
NextReport ==
  \/ Step(MainThread, TRUE)
  \/ Report(MainThread)

SpecReport == Init /\ [][NextReport]_vars

\* ------------------------------------------- the helpers, called directly
\* The outcome of a helper of which only the exception is modelled.
OutcomeOf(exc) == IF exc = NoExc THEN ReturnsVoid ELSE Thrown(exc, <<>>)

\* The outcome of a verification: the value comes back, or
\* std::invalid_argument("Lhs != rhs") is thrown.
VerifyOutcome(r) ==
  IF r.exc = NoExc THEN ReturnsValue(r.val) ELSE Thrown(r.exc, <<"Lhs != rhs">>)

Called(helper, lib, x, y, out) ==
  [NoCall EXCEPT !.helper = helper, !.lib = lib, !.x = x, !.y = y, !.out = out]

\* assert_eq(x, y) of test.hpp or of asserts.hpp
CallAssertEq ==
  /\ \E x \in HelperVals, y \in HelperVals :
       \/ hc' = Called("assert_eq", "test", x, y, OutcomeOf(assert_eq_test(x, y)))
       \/ hc' = Called("assert_eq", "asserts", x, y, OutcomeOf(assert_eq(x, y)))
  /\ UNCHANGED <<csuite, suite, pc, fr, fixture, gh, started, crashed, rep>>

\* assert_true(x = 1) of either header, assert_false(x = 1) of asserts.hpp
CallAssertBool ==
  /\ \E x \in HelperVals :
       \/ hc' = Called("assert_true", "test", x, 1, OutcomeOf(assert_true_test(x = 1)))
       \/ hc' = Called("assert_true", "asserts", x, 1, OutcomeOf(assert_true(x = 1)))
       \/ hc' = Called("assert_false", "asserts", x, 1, OutcomeOf(assert_false(x = 1)))
  /\ UNCHANGED <<csuite, suite, pc, fr, fixture, gh, started, crashed, rep>>

\* assert_nothrow(fn, args) of either header
CallAssertNothrow ==
  /\ \E fn \in Callables :
       \/ hc' = [NoCall EXCEPT !.helper = "assert_nothrow", !.lib = "test",
                               !.fn = fn, !.out = assert_nothrow_test_call(fn)]
       \/ hc' = [NoCall EXCEPT !.helper = "assert_nothrow", !.lib = "asserts",
                               !.fn = fn, !.out = assert_nothrow_call(fn)]
  /\ UNCHANGED <<csuite, suite, pc, fr, fixture, gh, started, crashed, rep>>

\* assert_throw<K>(fn, args)
CallAssertThrow ==
  /\ \E fn \in Callables, K \in ExpectedKinds :
       hc' = [NoCall EXCEPT !.helper = "assert_throw", !.lib = "asserts",
                            !.fn = fn, !.K = K,
                            !.out = OutcomeOf(assert_throw(K, fn.exc))]
  /\ UNCHANGED <<csuite, suite, pc, fr, fixture, gh, started, crashed, rep>>

\* v(x, y), vn(x, y), x && Verify{y}, Verify{y} && x, x ^ Verify{y},
\* Verify{y} ^ x: x is the actual and y the expected value.
CallVerify ==
  /\ \E x \in HelperVals, y \in HelperVals :
       \/ hc' = Called("v", "verify", x, y, VerifyOutcome(v(x, y)))
       \/ hc' = Called("vn", "verify", x, y, VerifyOutcome(vn(x, y)))
       \/ hc' = Called("and_verify", "verify", x, y, VerifyOutcome(and_verify(x, y)))
       \/ hc' = Called("verify_and", "verify", x, y, VerifyOutcome(verify_and(y, x)))
       \/ hc' = Called("xor_verify", "verify", x, y, VerifyOutcome(xor_verify(x, y)))
       \/ hc' = Called("verify_xor", "verify", x, y, VerifyOutcome(verify_xor(y, x)))
  /\ UNCHANGED <<csuite, suite, pc, fr, fixture, gh, started, crashed, rep>>

\* Name lists handed to test_all directly: every text of at most MaxStrLen
\* characters over a letter, the comma, the space and the ampersand.
NameChars == {"a", ",", " ", "&"}

NameStrings == UNION {[1..l -> NameChars] : l \in 0..MaxStrLen}

\* What stands for a display name when resolving it is undefined or throws.
Undefined == <<"<undefined>">>

RECURSIVE DisplayNames(_, _, _)
\* The fn_name of each test_single call that test_all makes for rest
\* callables on the name list buf from str on, through its recursion on
\* pcomma + 1.
DisplayNames(buf, str, rest) ==
  LET os == ResolveName(buf, str, rest)
      o == CHOOSE u \in os : TRUE
  IN IF \E u \in os : u.ub \/ u.crash \/ u.exc # NoExc THEN <<Undefined>>
     ELSE IF rest = 1 THEN <<o.fn_name>>
     ELSE <<o.fn_name>> \o DisplayNames(buf, NextNames(o.pcomma), rest - 1)

\* test_all(suite, str, fn1, ..., fnn): the display names it derives.
CallTestAll ==
  /\ \E str \in NameStrings :
       \E n \in 1..(NameCount(str, 1) + 1) :
         hc' = [NoCall EXCEPT !.helper = "test_all", !.lib = "test", !.str = str,
                              !.n = n, !.names = DisplayNames(str, 1, n)]
  /\ UNCHANGED <<csuite, suite, pc, fr, fixture, gh, started, crashed, rep>>

\* ------------------------------- the ConstexprTestSuite, called directly
\* csuite.increment_total()
CallIncrementTotal ==
  /\ Len(csuite.calls) < MaxCalls
  /\ csuite' = [members |-> ConstexprTestSuite_increment_total(csuite.members),
                calls |-> Append(csuite.calls, <<"increment_total", <<>>>>)]
  /\ UNCHANGED <<suite, pc, fr, fixture, gh, started, crashed, hc, rep>>

\* csuite.increment_failed()
CallIncrementFailed ==
  /\ Len(csuite.calls) < MaxCalls
  /\ csuite' = [members |-> ConstexprTestSuite_increment_failed(csuite.members),
                calls |-> Append(csuite.calls, <<"increment_failed", <<>>>>)]
  /\ UNCHANGED <<suite, pc, fr, fixture, gh, started, crashed, hc, rep>>

\* csuite.add_failed_test(sv)
CallAddFailedTest ==
  /\ Len(csuite.calls) < MaxCalls
  /\ \E sv \in {<<Letter(1)>>, <<Letter(2)>>} :
       csuite' = [members |-> ConstexprTestSuite_add_failed_test(csuite.members, sv),
                  calls |-> Append(csuite.calls, <<"add_failed_test", sv>>)]
  /\ UNCHANGED <<suite, pc, fr, fixture, gh, started, crashed, hc, rep>>

NextConstexprSuite ==
  \/ CallIncrementTotal
  \/ CallIncrementFailed
  \/ CallAddFailedTest

SpecConstexprSuite == Init /\ [][NextConstexprSuite]_vars

\* One call per behaviour: the helpers keep nothing from one call to the next.
NextHelpers ==
  \/ hc = NoCall /\ CallAssertEq
  \/ hc = NoCall /\ CallAssertBool
  \/ hc = NoCall /\ CallAssertNothrow
  \/ hc = NoCall /\ CallAssertThrow
  \/ hc = NoCall /\ CallVerify
  \/ hc = NoCall /\ CallTestAll

SpecHelpers == Init /\ [][NextHelpers]_vars

\* ------------------------------------------------------------------ claims
Last(seq) == seq[Len(seq)]

\* The tests of thread t's invocation that raised the Failure Signal.
Failures(t) == Len(gh[t].failedRun)

\* The name list of thread t's invocation has one entry per callable and the
\* invocation met no undefined behaviour.
WellFormed(t) == gh[t].names = gh[t].n /\ ~gh[t].ub

Fresh(s) == s.total = 0 /\ s.failed = 0 /\ s.failed_testnames = <<>>

\* C1: a Runner invocation on N named tests of which F raise the Failure
\* Signal returns F, whatever the suite's counters were before.
C1_ReturnsFailedCount ==
  \A t \in Threads :
    (pc[t] = "returned" /\ WellFormed(t)) => fr[t].ret = Failures(t)

\* C2: after the Runner has run a batch against a fresh suite, status() is
\* the number of tests that raised the Failure Signal and the failed names
\* are the names of those tests, in the order they ran.
C2_FreshSuiteRecordsFailures ==
  \A t \in Threads :
    (pc[t] = "returned" /\ Fresh(gh[t].base)) =>
      /\ status(suite) = Failures(t)
      /\ Len(suite.failed_testnames) = Failures(t)
      /\ suite.failed_testnames = gh[t].failedRun

\* C2 witness: the batch [first passes, second fails] has returned on a fresh
\* suite, with status() 1 and the second name recorded.
C2_Witness ==
  /\ pc[MainThread] = "returned"
  /\ Fresh(gh[MainThread].base)
  /\ gh[MainThread].hist = <<NoExc, "TestFailure">>
  /\ status(suite) = 1
  /\ suite.failed_testnames = << <<"b">> >>

\* The outcome of the current test of thread t is recorded as a failure once
\* the Runner is past the aggregator calls.
RecordedAsFailed(t) ==
  /\ pc[t] # "propagated"
  /\ fr[t].passed = FALSE
  /\ pc[t] \in {"return", "returned"} =>
       /\ Len(gh[t].log) >= 2
       /\ gh[t].log[Len(gh[t].log) - 1] = <<"increment_failed", fr[t].fn_name>>
       /\ Last(gh[t].log) = <<"add_failed_test", fr[t].fn_name>>

\* C3: when an Assertion Library helper detects a violated condition in a
\* test body, the Runner catches the signal, records the test as failed and
\* goes on (the signal does not propagate out of the Runner).
C3_AssertionFailureCaught ==
  \A t \in Threads : gh[t].detected = "assertion" => RecordedAsFailed(t)

\* C4: when a Verification Library helper detects a violated condition in a
\* test body, the Runner catches the signal, records the test as failed and
\* goes on.
C4_VerificationFailureCaught ==
  \A t \in Threads : gh[t].detected = "verification" => RecordedAsFailed(t)

\* The last test body thread t invoked raised an exception that is not the
\* Failure Signal.
RaisedOther(t) ==
  /\ gh[t].hist # <<>>
  /\ Last(gh[t].hist) # NoExc
  /\ ~IsA(Last(gh[t].hist), "TestFailure")

\* C5: a test body's exception of any kind other than the Failure Signal
\* propagates out of the Runner, and no aggregator operation is called for
\* that test.
C5_OtherExceptionsPropagate ==
  \A t \in Threads :
    RaisedOther(t) =>
      /\ pc[t] \in {"scope_exit", "propagated"}
      /\ fr[t].exc = Last(gh[t].hist)
      /\ Last(gh[t].log)[1] \in {"invoke", "destroy"}
      /\ suite.failed = gh[t].base.failed + Failures(t)
      /\ suite.failed_testnames = gh[t].base.failed_testnames \o gh[t].failedRun

\* C5 witness: after a recorded failure, the second body's runtime_error has
\* left the Runner.
C5_Witness ==
  /\ pc[MainThread] = "propagated"
  /\ gh[MainThread].hist = <<"TestFailure", "runtime_error">>
  /\ fr[MainThread].exc = "runtime_error"
  /\ suite.failed = gh[MainThread].base.failed + 1

\* C6: with Runners on several threads sharing the suite, no state shows
\* more failed names than the failed counter counts.
C6_NamesNeverExceedFailed == Len(suite.failed_testnames) <= suite.failed

\* Every thread has made exactly one Runner invocation and it has returned.
BothFinished ==
  /\ \A t \in Threads : pc[t] = "returned"
  /\ started = gh[1].n + gh[2].n

\* C7: after two concurrent Runner invocations of n and m tests (f and g
\* failing) on one suite, total = n + m, failed = f + g and f + g names are
\* recorded.
C7_NoLostUpdate ==
  BothFinished =>
    /\ suite.total = gh[1].n + gh[2].n
    /\ suite.failed = Failures(1) + Failures(2)
    /\ Len(suite.failed_testnames) = Failures(1) + Failures(2)

\* C8: in every state of any sequence of Runner invocations, between the
\* aggregator operations of one test too, failed <= total; and no step
\* decreases total or failed.
C8_FailedAtMostTotal ==
  /\ [](suite.failed <= suite.total)
  /\ [][suite'.total >= suite.total /\ suite'.failed >= suite.failed]_vars

\* C8 witness: in a later invocation on the suite, a failing test has been
\* counted in total and in failed, and failed has caught up with total.
C8_Witness ==
  /\ pc[MainThread] = "load_size"
  /\ gh[MainThread].base.total >= 1
  /\ suite.failed = suite.total
  /\ suite.failed = gh[MainThread].base.failed + Failures(MainThread)

\* C9: when the name list has not as many entries as there are callables,
\* the Runner raises an error before any test body runs, and nothing is
\* recorded in the suite.
C9_MismatchRaisesFirst ==
  \A t \in Threads :
    (pc[t] # "idle" /\ gh[t].names # gh[t].n) =>
      /\ gh[t].hist = <<>>
      /\ suite = gh[t].base
      /\ pc[t] # "returned"

\* C10: every fixture method is invoked on a freshly default-constructed
\* fixture: what an earlier test did to its fixture does not show.
C10_FixtureFresh ==
  \A t \in Threads :
    pc[t] = "invoke_method" => fixture[t] = [alive |-> TRUE, num |-> 1]

\* C10 witness: an earlier test of the batch changed its fixture, and the
\* next test is about to run on its own fixture.
C10_Witness ==
  /\ pc[MainThread] = "invoke_method"
  /\ gh[MainThread].dirty
  /\ Len(gh[MainThread].hist) >= 1
  /\ fixture[MainThread].num = 1

Count(seq, event) == Cardinality({i \in 1..Len(seq) : seq[i][1] = event})

\* Fixtures of thread t's invocation that are constructed and not destroyed.
AliveFixtures(t) == Count(gh[t].log, "construct") - Count(gh[t].log, "destroy")

\* C11: the fixture of a test is destroyed when the test's invocation ends,
\* on the normal path, after a caught Failure Signal and while another
\* exception propagates, and before the next fixture is constructed: at
\* most one fixture is alive, and only while its test body runs.
C11_FixtureLifetime ==
  \A t \in Threads :
    /\ AliveFixtures(t) \in {0, 1}
    /\ AliveFixtures(t) = 1 <=> pc[t] \in {"invoke_method", "scope_exit"}
    /\ fixture[t].alive <=> AliveFixtures(t) = 1

\* C11 witness: a fixture method's exception has left the Runner after the
\* second test, and both fixtures of the batch are destroyed.
C11_Witness ==
  /\ pc[MainThread] = "propagated"
  /\ fr[MainThread].with_fixture
  /\ fr[MainThread].exc = "AssertFailure"
  /\ Count(gh[MainThread].log, "destroy") = 2
  /\ ~fixture[MainThread].alive


\* ------------------------------------------------------------------- C18
Results == {"PASSED", "FAILED"}

\* C18 (as stated): the outcome of a test is recorded into the aggregator
\* before the result notification of that test is emitted, that is, every
\* result notification directly follows increment_total (a passed test) or
\* add_failed_test (a failed test) of the same test.
C18_RecordedBeforeResult ==
  LET log == gh[MainThread].log IN
  \A i \in 1..Len(log) :
    log[i][1] \in Results =>
      /\ i > 1
      /\ log[i - 1][1] \in {"increment_total", "add_failed_test"}
      /\ log[i - 1][2] = log[i][2]

\* The event that may directly precede event i of a log, as the code orders
\* the steps of one test and of consecutive tests.
InOrder(log, fix, i) ==
  LET e == log[i][1]
      p == IF i = 1 THEN "start" ELSE log[i - 1][1]
      pp == IF i <= 2 THEN "start" ELSE log[i - 2][1]
  IN CASE e = "Running" -> \/ p = "start"
                           \/ p = "increment_total" /\ pp = "PASSED"
                           \/ p = "add_failed_test"
       [] e = "construct" -> fix /\ p = "Running"
       [] e = "invoke" -> p = (IF fix THEN "construct" ELSE "Running")
       [] e = "destroy" -> fix /\ p = "invoke"
       [] e \in Results -> p = (IF fix THEN "destroy" ELSE "invoke")
       [] e = "increment_total" -> p \in Results
       [] e = "increment_failed" -> p = "increment_total" /\ pp = "FAILED"
       [] e = "add_failed_test" -> p = "increment_failed"
       [] OTHER -> FALSE

\* C18 (amended): for each test the starting notification precedes the
\* body, the result notification follows the end of the body (and of the
\* fixture) and tells the body's outcome, and the outcome is recorded after
\* the result notification: increment_total, then on failure
\* increment_failed and add_failed_test; the steps of one test carry one
\* name and all precede the starting notification of the next test.
C18_StepOrder ==
  LET log == gh[MainThread].log IN
  \A i \in 1..Len(log) :
    /\ InOrder(log, fr[MainThread].with_fixture, i)
    /\ log[i][1] # "Running" => log[i][2] = log[i - 1][2]
    /\ log[i][1] \in Results =>
         LET j == Cardinality({h \in 1..i : log[h][1] \in Results}) IN
         (log[i][1] = "PASSED") <=> (gh[MainThread].hist[j] = NoExc)

C18_Witness ==
  /\ pc[MainThread] = "returned"
  /\ fr[MainThread].with_fixture
  /\ Count(gh[MainThread].log, "add_failed_test") = 1
  /\ Count(gh[MainThread].log, "PASSED") = 1
  /\ Last(gh[MainThread].log)[1] = "increment_total"


\* ------------------------------------------------------------- C12 .. C16
\* C12: assert_nothrow(f, args) raises iff invoking f(args) raises any
\* exception, and when f(args) raises nothing it returns the result of
\* f(args) unchanged to its caller.
C12_NothrowReturnsResult ==
  hc.helper = "assert_nothrow" =>
    /\ hc.out.exc # NoExc <=> hc.fn.exc # NoExc
    /\ hc.fn.exc = NoExc => hc.out.returns /\ hc.out.val = hc.fn.val

\* The exception types that are the framework's Failure Signal.
FailureSignals == {"TestFailure", "AssertFailure"}

\* C13: when the callable handed to assert_nothrow raises a Failure Signal,
\* the very same signal, with the same type and the same message, leaves
\* assert_nothrow.
C13_FailureSignalUnchanged ==
  hc.helper = "assert_nothrow" /\ hc.fn.exc \in FailureSignals =>
    /\ hc.out.exc = hc.fn.exc
    /\ hc.out.what = hc.fn.what

\* The pairs <<k, K>> of exception types with k equal to K or derived from K.
KindOrDerived ==
  {<<"invalid_argument", "invalid_argument">>, <<"invalid_argument", "logic_error">>,
   <<"invalid_argument", "exception">>,
   <<"runtime_error", "runtime_error">>, <<"runtime_error", "exception">>,
   <<"logic_error", "logic_error">>, <<"logic_error", "exception">>,
   <<"TestFailure", "TestFailure">>, <<"TestFailure", "logic_error">>,
   <<"TestFailure", "exception">>,
   <<"AssertFailure", "AssertFailure">>, <<"AssertFailure", "logic_error">>,
   <<"AssertFailure", "exception">>,
   <<"unknown", "unknown">>}

\* C14: assert_throw<K>(f, args) raises a failure iff invoking f(args) does
\* not raise an exception of type K or of a type derived from K, where every
\* exception counts when K is AnyException.
C14_AssertThrow ==
  hc.helper = "assert_throw" =>
    /\ hc.out.exc # NoExc <=>
         ~(/\ hc.fn.exc # NoExc
           /\ hc.K = "AnyException" \/ <<hc.fn.exc, hc.K>> \in KindOrDerived)
    /\ hc.out.exc \in FailureSignals \cup {NoExc}

C14_Witness ==
  /\ hc.helper = "assert_throw"
  /\ hc.K = "exception"
  /\ hc.fn.exc = "invalid_argument"
  /\ hc.out.exc = NoExc

\* C15: v(x, y), x && Verify{y} and Verify{y} && x return x without raising
\* iff x = y and raise otherwise; vn(x, y), x ^ Verify{y} and Verify{y} ^ x
\* return x without raising iff x # y and raise otherwise; the value given
\* back is always the actual value x.
C15_VerifyReturnsActual ==
  /\ hc.helper \in {"v", "and_verify", "verify_and"} =>
       /\ hc.out.exc = NoExc <=> hc.x = hc.y
       /\ hc.out.exc = NoExc => hc.out.returns /\ hc.out.val = hc.x
  /\ hc.helper \in {"vn", "xor_verify", "verify_xor"} =>
       /\ hc.out.exc = NoExc <=> hc.x # hc.y
       /\ hc.out.exc = NoExc => hc.out.returns /\ hc.out.val = hc.x

C15_Witness ==
  /\ hc.helper = "verify_xor"
  /\ hc.x = 2
  /\ hc.y = 1
  /\ hc.out.returns
  /\ hc.out.val = 2

\* C16: assert_eq(a, b) raises a Test Failure, the signal the Runner turns
\* into a failed test, iff a # b; assert_true(c) raises iff c is false and
\* assert_false(c) raises iff c is true.
C16_RaisesTestFailureIff ==
  /\ hc.helper = "assert_eq" =>
       /\ hc.out.exc # NoExc <=> hc.x # hc.y
       /\ hc.out.exc # NoExc => Catches(hc.out.exc)
  /\ hc.helper = "assert_true" => (hc.out.exc # NoExc <=> ~(hc.x = 1))
  /\ hc.helper = "assert_false" => (hc.out.exc # NoExc <=> hc.x = 1)

\* ------------------------------------------------------------------- C19
RECURSIVE Split(_)
\* The comma-separated entries of a text.
Split(s) ==
  IF \A i \in 1..Len(s) : s[i] # ","
  THEN <<s>>
  ELSE LET j == CHOOSE i \in 1..Len(s) : s[i] = "," /\ \A h \in 1..(i - 1) : s[h] # ","
       IN <<SubSeq(s, 1, j - 1)>> \o Split(SubSeq(s, j + 1, Len(s)))

RECURSIVE StripLeading(_)
\* A text without its leading whitespace and ampersands.
StripLeading(s) ==
  IF s # <<>> /\ s[1] \in {" ", "\t", "\n", "\r", "&"} THEN StripLeading(Tail(s))
  ELSE s

\* C19: when the name list has exactly as many comma-separated entries as
\* there are callables, the display name of the i-th callable is the i-th
\* entry without its leading whitespace and ampersands and without the
\* comma that ends it.
C19_NamesByPosition ==
  hc.helper = "test_all" /\ Len(Split(hc.str)) = hc.n =>
    /\ Len(hc.names) = hc.n
    /\ \A i \in 1..hc.n : hc.names[i] = StripLeading(Split(hc.str)[i])

C19_Witness ==
  /\ hc.helper = "test_all"
  /\ hc.n = 2
  /\ hc.str = <<"&", "a", ",", "a">>
  /\ hc.names = <<<<"a">>, <<"a">>>>


IsInvoke(e) == e[1] = "invoke"

\* The tests thread t's Runner invoked, by name, in order.
Invocations(t) == SelectSeq(gh[t].log, IsInvoke)

\* The compile-time macro and the runtime macro on a fresh TestSuite were
\* given the same batch (as many tests, of the same kind, behaving alike)
\* and both have returned.
SameBatchDone ==
  /\ pc[ConstantEvaluator] = "returned"
  /\ pc[MainThread] = "returned"
  /\ fr[ConstantEvaluator].ct
  /\ Fresh(gh[MainThread].base)
  /\ gh[ConstantEvaluator].n = gh[MainThread].n
  /\ fr[ConstantEvaluator].with_fixture = fr[MainThread].with_fixture
  /\ gh[ConstantEvaluator].hist = gh[MainThread].hist

\* C20: for every batch, the Runner run with the compile-time aggregator
\* invokes the same tests in the same order and returns the same value as
\* the Runner run with a fresh runtime TestSuite.
C20_ConstexprSameAsRuntime ==
  SameBatchDone =>
    /\ Invocations(ConstantEvaluator) = Invocations(MainThread)
    /\ fr[ConstantEvaluator].ret = fr[MainThread].ret


\* ------------------------------------------------------------------- C21
\* C21: the compile-time aggregator always reports zero failures: after any
\* sequence of increment_total, increment_failed and add_failed_test calls
\* on a ConstexprTestSuite its status() is 0, and none of these calls
\* changes the object or what status() returns.
C21_ConstexprStatusZero ==
  /\ [](ConstexprTestSuite_status(csuite.members) = 0)
  /\ [][/\ csuite'.members = csuite.members
        /\ ConstexprTestSuite_status(csuite'.members)
             = ConstexprTestSuite_status(csuite.members)]_vars

C21_Witness ==
  /\ Len(csuite.calls) = 3
  /\ {csuite.calls[i][1] : i \in 1..3}
       = {"increment_total", "increment_failed", "add_failed_test"}
  /\ ConstexprTestSuite_status(csuite.members) = 0


\* ------------------------------------------------------------------- C22
\* C22: when the k-th test body of a batch raises an exception that is not
\* the Failure Signal, the aggregator is as the k - 1 tests before it left
\* it (the aborting test is not counted in total, in failed or among the
\* failed names), and no test after position k is invoked: the invocation
\* does nothing more to the suite and runs no further body.
C22_AbortLeavesSuite ==
  /\ [](RaisedOther(MainThread) =>
          /\ suite.total = gh[MainThread].base.total + Len(gh[MainThread].hist) - 1
          /\ suite.failed = gh[MainThread].base.failed + Failures(MainThread)
          /\ suite.failed_testnames =
               gh[MainThread].base.failed_testnames \o gh[MainThread].failedRun
          /\ Count(gh[MainThread].log, "invoke") = Len(gh[MainThread].hist))
  /\ [][RaisedOther(MainThread) =>
          \/ gh'[MainThread].hist = gh[MainThread].hist /\ suite' = suite
          \/ pc'[MainThread] = "test_all" /\ gh'[MainThread].hist = <<>> /\ suite' = suite]_vars

C22_Witness ==
  /\ pc[MainThread] = "propagated"
  /\ gh[MainThread].n = 3
  /\ gh[MainThread].hist = <<"TestFailure", "runtime_error">>
  /\ suite.total = gh[MainThread].base.total + 1
  /\ suite.failed_testnames = gh[MainThread].failedRun


\* ------------------------------------------------------------------- C23
\* The main thread's Runner stands between increment_failed and the end of
\* add_failed_test of one test.
MidRecording == pc[MainThread] \in {"load_size", "store_name"}

\* C23: in a single-threaded run against a TestSuite every state, the
\* states between increment_total, increment_failed and add_failed_test
\* included, has no more failed names than failed counts, and as many when
\* no test is in the middle of being recorded; each completed test adds
\* exactly 1 to total.
C23_NamesTrackFailed ==
  /\ [](/\ Len(suite.failed_testnames) <= suite.failed
        /\ ~MidRecording => Len(suite.failed_testnames) = suite.failed
        /\ pc[MainThread] = "return" =>
             suite.total = gh[MainThread].base.total + Len(gh[MainThread].hist)
        /\ pc[MainThread] = "returned" =>
             suite.total = gh[MainThread].base.total + gh[MainThread].n)
  /\ [][suite'.total \in {suite.total, suite.total + 1}]_vars

C23_Witness ==
  /\ pc[MainThread] = "store_name"
  /\ suite.failed = 2
  /\ Len(suite.failed_testnames) = 1
  /\ suite.total = 3

====
